---- MODULE Spec2Model ----
(***************************************************************************)
(* A model of the Buddhabrot renderer's core: the colour accumulator      *)
(* (src/src/color.rs) and the sampling engine (src/src/sample.rs).        *)
(*                                                                         *)
(* f32 values are modelled as exact rationals <<num, den>> in lowest      *)
(* terms.  All inputs are dyadic and small enough that every intermediate *)
(* value of the code is exactly representable in f32, so the exact        *)
(* arithmetic below is the arithmetic the code performs on these inputs.  *)
(***************************************************************************)
EXTENDS Integers, Sequences, FiniteSets

(***************************************************************************)
(* Bounds of the model.                                                    *)
(***************************************************************************)
MaxN == 2
MaxCpus == 2
MaxWidth == 2
MaxHeight == 2
MaxM == 2
MaxSamples == 3
MaxProgressIters == 6
MaxPU == 3
MaxFill == 1
MaxVal == 2
MaxHalvings == 1

(***************************************************************************)
(* f32 arithmetic on exactly representable values.                         *)
(***************************************************************************)
Abs(x) == IF x < 0 THEN -x ELSE x

RECURSIVE GCD(_, _)
GCD(a, b) == IF b = 0 THEN a ELSE GCD(b, a % b)

\* The value num/den in lowest terms with a positive denominator.
Rat(num, den) ==
    LET s == IF den < 0 THEN -1 ELSE 1
        g == GCD(Abs(num), Abs(den))
    IN  <<(s * num) \div g, (s * den) \div g>>

F(k) == <<k, 1>>

FAdd(a, b) ==
    LET g == GCD(a[2], b[2])
        l == (a[2] \div g) * b[2]
    IN  Rat(a[1] * (l \div a[2]) + b[1] * (l \div b[2]), l)

FNeg(a) == <<-a[1], a[2]>>

FSub(a, b) == FAdd(a, FNeg(b))

FMul(a, b) ==
    LET g1 == GCD(Abs(a[1]), b[2])
        g2 == GCD(Abs(b[1]), a[2])
    IN  Rat((a[1] \div g1) * (b[1] \div g2), (a[2] \div g2) * (b[2] \div g1))

\* a / b for b # 0.
FDiv(a, b) == FMul(a, Rat(b[2], b[1]))

FGt(a, b) == a[1] * b[2] > b[1] * a[2]

\* `x as i32` for a finite x within the i32 range: truncation toward zero.
AsI32(a) == IF a[1] >= 0 THEN a[1] \div a[2] ELSE -((-a[1]) \div a[2])

\* The mathematical floor, for comparison with the cast.
Floor(a) == a[1] \div a[2]

(***************************************************************************)
(* The complex-number collaborator (crate::complex), a value type that is *)
(* not part of the sources at hand: componentwise operations, a scalar    *)
(* operand acting on both components.                                      *)
(***************************************************************************)
Complex(re, im) == [re |-> re, im |-> im]

CMulS(z, s) == Complex(FMul(z.re, s), FMul(z.im, s))

CDivS(z, s) == Complex(FDiv(z.re, s), FDiv(z.im, s))

CAddS(z, s) == Complex(FAdd(z.re, s), FAdd(z.im, s))

CAdd(z, w) == Complex(FAdd(z.re, w.re), FAdd(z.im, w.im))

CSub(z, w) == Complex(FSub(z.re, w.re), FSub(z.im, w.im))

(***************************************************************************)
(* mandelbrot (sample.rs): the escape-time recurrence.                     *)
(***************************************************************************)
\* A faulty escape test: the bound squared twice.
Escapes_squared_twice(z_mag_2) == FGt(z_mag_2, F(16))

\* The escape test of the loop body.
Escapes(z_mag_2) == FGt(z_mag_2, F(4))

\* The loop `for _ in 0..n`, at iteration k with the loop's locals.
RECURSIVE MandelLoop(_, _, _, _, _, _, _, _)
MandelLoop(c, n, k, z_re, z_im, z_re_2, z_im_2, sequence) ==
    IF k >= n
    THEN <<>>
    ELSE LET pushed == Append(sequence, Complex(z_re, z_im))
             new_im == FAdd(FMul(FMul(F(2), z_re), z_im), c.im)
             new_re == FAdd(FSub(z_re_2, z_im_2), c.re)
             new_re_2 == FMul(new_re, new_re)
             new_im_2 == FMul(new_im, new_im)
             z_mag_2 == FAdd(new_re_2, new_im_2)
         IN  IF Escapes(z_mag_2)
             THEN pushed
             ELSE MandelLoop(c, n, k + 1, new_re, new_im, new_re_2, new_im_2, pushed)

\* A faulty recurrence: the textbook start z = 0 instead of z = c.
mandelbrot_from_zero(c, n) ==
    MandelLoop(c, n, 0, F(0), F(0), F(0), F(0), <<>>)

mandelbrot(c, n) ==
    MandelLoop(c, n, 0, c.re, c.im, FMul(c.re, c.re), FMul(c.im, c.im), <<>>)

(***************************************************************************)
(* The colour accumulator (color.rs).  A Float is an f32, an Rg a record   *)
(* [r, g], an Rgb a record [r, g, b]; T names the implementing type.  The  *)
(* channel magnitudes that occur are non-negative: exactly representable   *)
(* values <<num, den>>, the infinity <<1, 0>> and NaN <<0, 0>>.            *)
(***************************************************************************)
ColorTypes == {"Float", "Rg", "Rgb"}

ColorChannel == {"Red", "Green", "Blue"}

Inf == <<1, 0>>

NaN == <<0, 0>>

IsNaN(a) == a[1] = 0 /\ a[2] = 0

IsInf(a) == a[1] # 0 /\ a[2] = 0

IsFinite(a) == a[2] # 0

\* f32 + f32 on non-negative operands
XAdd(a, b) ==
    IF IsNaN(a) \/ IsNaN(b) THEN NaN
    ELSE IF IsInf(a) \/ IsInf(b) THEN Inf
    ELSE FAdd(a, b)

\* f32 * f32 on non-negative operands
XMul(a, b) ==
    IF IsNaN(a) \/ IsNaN(b) THEN NaN
    ELSE IF IsInf(a) \/ IsInf(b)
         THEN (IF a = F(0) \/ b = F(0) THEN NaN ELSE Inf)
    ELSE FMul(a, b)

\* f32 / f32 on non-negative operands: x/0 is the infinity for x > 0, and
\* 0/0 and inf/inf are NaN.
XDiv(a, b) ==
    IF IsNaN(a) \/ IsNaN(b) THEN NaN
    ELSE IF IsInf(a) THEN (IF IsInf(b) THEN NaN ELSE Inf)
    ELSE IF IsInf(b) THEN F(0)
    ELSE IF b = F(0) THEN (IF a = F(0) THEN NaN ELSE Inf)
    ELSE FDiv(a, b)

\* f32::max: of a NaN and a number, the number.
FMax(a, b) ==
    IF IsNaN(a) THEN b
    ELSE IF IsNaN(b) THEN a
    ELSE IF a[1] * b[2] >= b[1] * a[2] THEN a ELSE b

Rg_new(r, g) == [r |-> r, g |-> g]

Rgb_new(r, g, b) == [r |-> r, g |-> g, b |-> b]

\* Color::empty
empty(T) ==
    CASE T = "Float" -> F(0)
      [] T = "Rg" -> Rg_new(F(0), F(0))
      [] T = "Rgb" -> Rgb_new(F(0), F(0), F(0))

\* Color::add, the value of *self afterwards
add(T, self, rhs) ==
    CASE T = "Float" -> XAdd(self, rhs)
      [] T = "Rg" -> [r |-> XAdd(self.r, rhs.r), g |-> XAdd(self.g, rhs.g)]
      [] T = "Rgb" -> [r |-> XAdd(self.r, rhs.r), g |-> XAdd(self.g, rhs.g),
                       b |-> XAdd(self.b, rhs.b)]

\* Color::max
max(T, self, rhs) ==
    CASE T = "Float" -> FMax(self, rhs)
      [] T = "Rg" -> [r |-> FMax(self.r, rhs.r), g |-> FMax(self.g, rhs.g)]
      [] T = "Rgb" -> [r |-> FMax(self.r, rhs.r), g |-> FMax(self.g, rhs.g),
                       b |-> FMax(self.b, rhs.b)]

\* The closures passed to Color::map: |v| v, |v| v * 0.5 and |v| v + 1.0.
MapFns == {"id", "half", "succ"}

Apply(f, v) ==
    CASE f = "id" -> v
      [] f = "half" -> XMul(v, Rat(1, 2))
      [] f = "succ" -> XAdd(v, F(1))

\* Color::map
map(T, self, f) ==
    CASE T = "Float" -> Apply(f, self)
      [] T = "Rg" -> [r |-> Apply(f, self.r), g |-> Apply(f, self.g)]
      [] T = "Rgb" -> [r |-> Apply(f, self.r), g |-> Apply(f, self.g),
                       b |-> Apply(f, self.b)]

\* Color::cdiv_assign, the value of *self afterwards
cdiv_assign(T, self, rhs) ==
    CASE T = "Float" -> XDiv(self, rhs)
      [] T = "Rg" -> [r |-> XDiv(self.r, rhs.r), g |-> XDiv(self.g, rhs.g)]
      [] T = "Rgb" -> [r |-> XDiv(self.r, rhs.r), g |-> XDiv(self.g, rhs.g),
                       b |-> XDiv(self.b, rhs.b)]

\* Color::one panics: the arm `_ => panic!(..)` of Rg; Float and Rgb have none.
one_panics(T, channel) ==
    CASE T = "Float" -> FALSE
      [] T = "Rg" -> channel \notin {"Red", "Green"}
      [] T = "Rgb" -> FALSE

\* Color::one, where it returns
one(T, channel) ==
    CASE T = "Float" -> F(1)
      [] T = "Rg" -> IF channel = "Red" THEN Rg_new(F(1), F(0)) ELSE Rg_new(F(0), F(1))
      [] T = "Rgb" -> CASE channel = "Red" -> Rgb_new(F(1), F(0), F(0))
                        [] channel = "Green" -> Rgb_new(F(0), F(1), F(0))
                        [] channel = "Blue" -> Rgb_new(F(0), F(0), F(1))

\* A faulty widening: the green channel of an Rg put in the blue slot.
to_tuple_rgb_green_as_blue(T, self) ==
    CASE T = "Float" -> <<self, self, self>>
      [] T = "Rg" -> <<self.r, F(0), self.g>>
      [] T = "Rgb" -> <<self.r, self.g, self.b>>

\* Color::to_tuple_rgb
to_tuple_rgb(T, self) ==
    CASE T = "Float" -> <<self, self, self>>
      [] T = "Rg" -> <<self.r, self.g, F(0)>>
      [] T = "Rgb" -> <<self.r, self.g, self.b>>

(***************************************************************************)
(* The pixel-buffer collaborator (crate::images), a container that is not *)
(* part of the sources at hand: a grid of colour values addressed by      *)
(* (x, y), zero-initialised, with in-place addition at a coordinate and   *)
(* an enumeration of its (x, y, value) triples in a fixed order.          *)
(***************************************************************************)
Cells(size, width) == (0..(width - 1)) \X (0..((size \div width) - 1))

Image_new(T, size, width) == [xy \in Cells(size, width) |-> empty(T)]

Image_add(T, image, xy, color) == [image EXCEPT ![xy] = add(T, @, color)]

\* The k-th triple of into_enumerate_pixels, k counted from 0.
EnumCoord(k, width) == <<k % width, k \div width>>

(***************************************************************************)
(* sample (sample.rs): the values computed before the workers start.      *)
(***************************************************************************)
Height(p) == p.size \div p.width

Iters(p) == p.size * p.m

ThreadProgressUp(p) == p.progress_update \div p.cpus

ThreadProgressOffset(p, id) == id * ThreadProgressUp(p)

\* usize::div_ceil
DivCeil(a, b) == IF a % b > 0 THEN (a \div b) + 1 ELSE a \div b

\* A faulty quota: the division rounded down.
Quota_floor(p) == Iters(p) \div p.cpus

\* The number of iterations of a worker's loop `for i in 0..iters.div_ceil(cpus)`.
Quota(p) == DivCeil(Iters(p), p.cpus)

\* `Complex::new(r1, r2) * scale + center`
Candidate(p, r1, r2) == CAdd(CMulS(Complex(r1, r2), p.scale), p.center)

\* `(z - center) / scale * 0.25 + 0.5`
ToFrame(p, z) == CAddS(CMulS(CDivS(CSub(z, p.center), p.scale), Rat(1, 4)), Rat(1, 2))

\* `(p.re * width as f32) as i32` and `(p.im * height as f32) as i32`
PixelX(p, z) == AsI32(FMul(ToFrame(p, z).re, F(p.width)))

PixelY(p, z) == AsI32(FMul(ToFrame(p, z).im, F(Height(p))))

\* The negation of the test that precedes `continue`.
InsideImage(p, px, py) == ~(px < 0 \/ py < 0 \/ px >= p.width \/ py >= Height(p))

\* The body of `for z in trajectory`: the worker-local buffer afterwards.
PlotPoint(p, buf, z) ==
    LET px == PixelX(p, z)
        py == PixelY(p, z)
    IN  IF InsideImage(p, px, py)
        THEN Image_add(p.T, buf, <<px, py>>, one(p.T, "Red"))
        ELSE buf

\* The loop `for z in trajectory`, from the k-th point on.
RECURSIVE PlotFrom(_, _, _, _)
PlotFrom(p, buf, trajectory, k) ==
    IF k > Len(trajectory)
    THEN buf
    ELSE PlotFrom(p, PlotPoint(p, buf, trajectory[k]), trajectory, k + 1)

\* The points of the trajectory, from the k-th on, that pass the test.
RECURSIVE CountInside(_, _, _)
CountInside(p, trajectory, k) ==
    IF k > Len(trajectory)
    THEN 0
    ELSE (IF InsideImage(p, PixelX(p, trajectory[k]), PixelY(p, trajectory[k]))
          THEN 1 ELSE 0) + CountInside(p, trajectory, k + 1)

\* A faulty report condition: the granularity test left out.
ShouldReport_every(p, id, i) == i # 0

\* The condition under which iteration i of a worker reports progress.
ShouldReport(p, id, i) ==
    i # 0 /\ (i + ThreadProgressOffset(p, id)) % p.progress_update = 0

(***************************************************************************)
(* State.                                                                  *)
(*   prm    the arguments of the sample call, the image's type parameter   *)
(*          and dimensions, the number of cpus and the image's contents    *)
(*          at the call                                                    *)
(*   im     the shared image, behind the mutex                             *)
(*   lock   the set of threads holding the mutex                           *)
(*   subim  each worker's private buffer                                   *)
(*   wpc    each worker's position; wi its loop index i; wk the number of  *)
(*          triples it has merged                                          *)
(*   bar    the position of the progress bar                               *)
(*   mpc    the position of the thread that called sample; mi the index    *)
(*          of its spawn loop, then of its join loop                       *)
(*   hits   the number of trajectory points plotted so far (history)       *)
(*   mb     a call of mandelbrot on its own                                *)
(*   col    a colour value under the operations of Color                   *)
(*   pl     one iteration of a worker's loop, point by point               *)
(***************************************************************************)
VARIABLES prm, im, lock, subim, wpc, wi, wk, bar, mpc, mi, hits, mb, col, pl

vars == <<prm, im, lock, subim, wpc, wi, wk, bar, mpc, mi, hits, mb, col, pl>>

sampleVars == <<prm, im, lock, subim, wpc, wi, wk, bar, mpc, mi, hits>>

(***************************************************************************)
(* The inputs.                                                             *)
(***************************************************************************)
\* Values of `rng.gen::<f32>() * 4.0 - 2.0`, which lies in [-2, 2): pairs
\* (r1, r2) drawn by the workers of sample, and a grid of them.
Draws == {<<F(-2), F(-2)>>, <<F(0), F(0)>>, <<F(1), F(0)>>}

PlotRVals == {F(-2), F(-1), F(0), F(1)}

\* The views: a scale and a center.
Views == {<<F(1), Complex(F(0), F(0))>>}

PlotViews == Views \cup {<<Rat(1, 2), Complex(F(-1), F(1))>>}

\* The image's contents at the call: every cell holds `fill` unit Red values.
RECURSIVE Times(_, _, _)
Times(T, color, k) == IF k = 0 THEN empty(T) ELSE add(T, Times(T, color, k - 1), color)

InitialImage(p) == [xy \in Cells(p.size, p.width) |-> Times(p.T, one(p.T, "Red"), p.fill)]

\* The arguments of a call: width divides size, and the callers of this
\* module pass cpus >= 1, width >= 1 and progress_update >= 1 (a granularity
\* of 0 makes `% progress_update` panic in every worker).
ParamsOf(Ts, Cpus, Ws, Hs, Ns, Ms, PUs, Vs, Fills) ==
    {[T |-> T, cpus |-> cpus, size |-> w * h, width |-> w, n |-> n, m |-> m,
      progress_update |-> pu, scale |-> view[1], center |-> view[2], fill |-> fill] :
        T \in Ts, cpus \in Cpus, w \in Ws, h \in Hs, n \in Ns, m \in Ms, pu \in PUs,
        view \in Vs, fill \in Fills}

\* Small images of every colour type, with a progress granularity no finer
\* than the number of samples.
SampleParams ==
    {p \in ParamsOf(ColorTypes, 1..MaxCpus, 1..MaxWidth, 1..MaxHeight, 1..MaxN,
                    0..MaxM, {MaxSamples}, Views, 0..MaxFill) :
        p.cpus * Quota(p) <= MaxSamples}

\* One-row images with longer loops and every progress granularity.
ProgressParams ==
    {p \in ParamsOf({"Float"}, 1..MaxCpus, 1..MaxWidth, {1}, {1}, 0..MaxProgressIters,
                    1..MaxPU, Views, {0}) :
        Iters(p) <= MaxProgressIters}

\* One worker, every view.
PlotParams ==
    ParamsOf(ColorTypes, {1}, 1..MaxWidth, 1..MaxHeight, 1..MaxN, {1}, {1},
             PlotViews, {0})

Workers(p) == 0..(p.cpus - 1)

IdleSample ==
    /\ prm = <<>> /\ im = <<>> /\ lock = {} /\ subim = <<>> /\ wpc = <<>>
    /\ wi = <<>> /\ wk = <<>> /\ bar = 0 /\ mpc = "idle" /\ mi = 0 /\ hits = 0

IdleMandel == mb = <<>>

IdleColor == col = <<>>

IdlePlot == pl = <<>>

(***************************************************************************)
(* sample: the calling thread and its workers.                             *)
(***************************************************************************)
SampleInitOver(P) ==
    /\ prm \in P
    /\ im = InitialImage(prm)
    /\ lock = {}
    /\ subim = [w \in Workers(prm) |-> Image_new(prm.T, prm.size, prm.width)]
    /\ wpc = [w \in Workers(prm) |-> "unspawned"]
    /\ wi = [w \in Workers(prm) |-> 0]
    /\ wk = [w \in Workers(prm) |-> 0]
    /\ bar = 0
    /\ mpc = "spawn"
    /\ mi = 0
    /\ hits = 0
    /\ IdleMandel /\ IdleColor /\ IdlePlot

\* `threads.push(thread::spawn(..))` for id = mi; the worker creates its buffer.
Spawn ==
    /\ mpc = "spawn" /\ mi < prm.cpus
    /\ wpc' = [wpc EXCEPT ![mi] = "sampling"]
    /\ subim' = [subim EXCEPT ![mi] = Image_new(prm.T, prm.size, prm.width)]
    /\ mi' = mi + 1
    /\ UNCHANGED <<prm, im, lock, wi, wk, bar, mpc, hits, mb, col, pl>>

\* The end of the spawn loop.
SpawnDone ==
    /\ mpc = "spawn" /\ mi = prm.cpus
    /\ mpc' = "join" /\ mi' = 0
    /\ UNCHANGED <<prm, im, lock, subim, wpc, wi, wk, bar, hits, mb, col, pl>>

\* One iteration of the worker's loop over its samples.
SampleStep(w) ==
    /\ wpc[w] = "sampling" /\ wi[w] < Quota(prm)
    /\ \E r \in Draws :
         LET c == Candidate(prm, r[1], r[2])
             trajectory == mandelbrot(c, prm.n)
         IN  /\ subim' = [subim EXCEPT ![w] = PlotFrom(prm, @, trajectory, 1)]
             /\ hits' = hits + CountInside(prm, trajectory, 1)
    /\ bar' = IF ShouldReport(prm, w, wi[w]) THEN bar + prm.progress_update ELSE bar
    /\ wi' = [wi EXCEPT ![w] = @ + 1]
    /\ UNCHANGED <<prm, im, lock, wpc, wk, mpc, mi, mb, col, pl>>

\* A faulty lock: it is granted whoever holds it.
LockFree_always == TRUE

\* `im.lock()` returns only when no thread holds the mutex.
LockFree == lock = {}

\* `let mut global_im = im.lock().unwrap()`, after the loop.
Acquire(w) ==
    /\ wpc[w] = "sampling" /\ wi[w] = Quota(prm)
    /\ LockFree
    /\ lock' = lock \cup {w}
    /\ wpc' = [wpc EXCEPT ![w] = "merging"]
    /\ UNCHANGED <<prm, im, subim, wi, wk, bar, mpc, mi, hits, mb, col, pl>>

\* The loop `for (x, y, px) in subim.into_enumerate_pixels()`, from the k-th
\* triple on: the shared image afterwards.
RECURSIVE MergeFrom(_, _, _, _)
MergeFrom(p, global_im, buf, k) ==
    IF k >= p.size
    THEN global_im
    ELSE LET xy == EnumCoord(k, p.width)
         IN  MergeFrom(p, Image_add(p.T, global_im, xy, buf[xy]), buf, k + 1)

\* A faulty merge: the worker's values are stored, not added.
Merge_overwrite(w) ==
    /\ wpc[w] = "merging" /\ wk[w] = 0
    /\ im' = subim[w]
    /\ wk' = [wk EXCEPT ![w] = prm.size]
    /\ UNCHANGED <<prm, lock, subim, wpc, wi, bar, mpc, mi, hits, mb, col, pl>>

\* The merge loop, run by the thread that holds the mutex.
Merge(w) ==
    /\ wpc[w] = "merging" /\ wk[w] = 0
    /\ im' = MergeFrom(prm, im, subim[w], 0)
    /\ wk' = [wk EXCEPT ![w] = prm.size]
    /\ UNCHANGED <<prm, lock, subim, wpc, wi, bar, mpc, mi, hits, mb, col, pl>>

\* The end of the closure: the guard is dropped and the thread finishes.
Release(w) ==
    /\ wpc[w] = "merging" /\ wk[w] = prm.size
    /\ lock' = lock \ {w}
    /\ wpc' = [wpc EXCEPT ![w] = "done"]
    /\ UNCHANGED <<prm, im, subim, wi, wk, bar, mpc, mi, hits, mb, col, pl>>

\* A faulty join: it returns for a thread that is still running.
Joinable_detached(w) == wpc[w] # "unspawned"

\* `thread.join()` returns once the thread has finished.
Joinable(w) == wpc[w] = "done"

Join ==
    /\ mpc = "join" /\ mi < prm.cpus
    /\ Joinable(mi)
    /\ mi' = mi + 1
    /\ UNCHANGED <<prm, im, lock, subim, wpc, wi, wk, bar, mpc, hits, mb, col, pl>>

\* `multiprogress.clear()`, and the return of sample.
Clear ==
    /\ mpc = "join" /\ mi = prm.cpus
    /\ mpc' = "returned"
    /\ UNCHANGED <<prm, im, lock, subim, wpc, wi, wk, bar, mi, hits, mb, col, pl>>

Next ==
    \/ Spawn
    \/ SpawnDone
    \/ \E w \in Workers(prm) : SampleStep(w)
    \/ \E w \in Workers(prm) : Acquire(w)
    \/ \E w \in Workers(prm) : Merge(w)
    \/ \E w \in Workers(prm) : Release(w)
    \/ Join
    \/ Clear

Spec == SampleInitOver(SampleParams) /\ [][Next]_vars

SpecProgress == SampleInitOver(ProgressParams) /\ [][Next]_vars

(***************************************************************************)
(* mandelbrot applied to inputs of a grid of half-integers in [-3, 3].     *)
(***************************************************************************)
MandelGrid == {Rat(k, 2) : k \in -6..6}

MandelInit ==
    /\ mb \in {[c |-> Complex(a, b), n |-> n, pc |-> "call", out |-> <<>>] :
                 a \in MandelGrid, b \in MandelGrid, n \in 0..MaxN}
    /\ IdleSample /\ IdleColor /\ IdlePlot

MandelCall ==
    /\ mb.pc = "call"
    /\ mb' = [mb EXCEPT !.pc = "done", !.out = mandelbrot(mb.c, mb.n)]
    /\ UNCHANGED <<sampleVars, col, pl>>

MandelNext == MandelCall

SpecMandel == MandelInit /\ [][MandelNext]_vars

(***************************************************************************)
(* A colour value of type T under the operations of Color.  col.conv says  *)
(* that rgb is to_tuple_rgb of val; a panic ends the process.              *)
(***************************************************************************)
\* The channels of a colour value of type T.
Channels(T, v) ==
    CASE T = "Float" -> {v}
      [] T = "Rg" -> {v.r, v.g}
      [] T = "Rgb" -> {v.r, v.g, v.b}

RECURSIVE Pow2(_)
Pow2(k) == IF k = 0 THEN 1 ELSE 2 * Pow2(k - 1)

\* The values kept within the model's bounds: every finite channel is at
\* most b, with a denominator of at most 2^MaxHalvings.
Within(T, v, b) ==
    \A x \in Channels(T, v) :
        IsFinite(x) => x[1] <= b * x[2] /\ x[2] <= Pow2(MaxHalvings)

\* The divisors handed to cdiv_assign: the uniform colours of 0.0, 1.0 and
\* 2.0, and the unit colours.
Uniform(T, v) ==
    CASE T = "Float" -> v
      [] T = "Rg" -> Rg_new(v, v)
      [] T = "Rgb" -> Rgb_new(v, v, v)

Divisors(T) ==
    {Uniform(T, v) : v \in {F(0), F(1), F(2)}}
        \cup {one(T, channel) : channel \in {c \in ColorChannel : ~one_panics(T, c)}}

\* col.rgb while no widening of the current value has been returned, and
\* col.ch while the last operation was not a call of one.
NoChannel == "Red"

NoTuple == <<F(0), F(0), F(0)>>

ColorInit ==
    /\ col \in {[T |-> T, val |-> empty(T), last |-> "empty", ch |-> NoChannel,
                 rgb |-> NoTuple, conv |-> FALSE, panicked |-> FALSE] :
                   T \in ColorTypes}
    /\ IdleSample /\ IdleMandel /\ IdlePlot

\* The state after an operation op has produced the colour value v.
Produced(v, op, channel) ==
    [col EXCEPT !.val = v, !.last = op, !.ch = channel, !.conv = FALSE,
                !.rgb = NoTuple]

ColEmpty ==
    /\ ~col.panicked
    /\ col' = Produced(empty(col.T), "empty", NoChannel)
    /\ UNCHANGED <<sampleVars, mb, pl>>

ColOne(channel) ==
    /\ ~col.panicked
    /\ col' = IF one_panics(col.T, channel)
              THEN [Produced(col.val, "one", channel) EXCEPT !.panicked = TRUE]
              ELSE Produced(one(col.T, channel), "one", channel)
    /\ UNCHANGED <<sampleVars, mb, pl>>

ColAdd(channel) ==
    /\ ~col.panicked /\ ~one_panics(col.T, channel)
    /\ LET v == add(col.T, col.val, one(col.T, channel))
       IN  /\ Within(col.T, v, MaxVal)
           /\ col' = Produced(v, "add", NoChannel)
    /\ UNCHANGED <<sampleVars, mb, pl>>

ColMax(channel) ==
    /\ ~col.panicked /\ ~one_panics(col.T, channel)
    /\ col' = Produced(max(col.T, col.val, one(col.T, channel)), "max", NoChannel)
    /\ UNCHANGED <<sampleVars, mb, pl>>

ColMap(f) ==
    /\ ~col.panicked
    /\ LET v == map(col.T, col.val, f)
       IN  /\ Within(col.T, v, MaxVal + 1)
           /\ col' = Produced(v, "map", NoChannel)
    /\ UNCHANGED <<sampleVars, mb, pl>>

ColCdivAssign(rhs) ==
    /\ ~col.panicked
    /\ LET v == cdiv_assign(col.T, col.val, rhs)
       IN  /\ Within(col.T, v, MaxVal + 1)
           /\ col' = Produced(v, "cdiv_assign", NoChannel)
    /\ UNCHANGED <<sampleVars, mb, pl>>

ColToTupleRgb ==
    /\ ~col.panicked /\ ~col.conv
    /\ col' = [col EXCEPT !.rgb = to_tuple_rgb(col.T, col.val), !.conv = TRUE]
    /\ UNCHANGED <<sampleVars, mb, pl>>

ColorNext ==
    \/ ColEmpty
    \/ \E channel \in ColorChannel : ColOne(channel)
    \/ \E channel \in ColorChannel : ColAdd(channel)
    \/ \E channel \in ColorChannel : ColMax(channel)
    \/ \E f \in MapFns : ColMap(f)
    \/ \E rhs \in Divisors(col.T) : ColCdivAssign(rhs)
    \/ ColToTupleRgb

SpecColor == ColorInit /\ [][ColorNext]_vars

(***************************************************************************)
(* One iteration of a worker's loop, the loop over the trajectory taken    *)
(* point by point: pl.prev is the buffer before the last point plotted,    *)
(* trajectory[k - 1].                                                      *)
(***************************************************************************)
PlotInit ==
    /\ pl \in {[p |-> p, pc |-> "draw", trajectory |-> <<>>, k |-> 1,
                buf |-> Image_new(p.T, p.size, p.width),
                prev |-> Image_new(p.T, p.size, p.width)] : p \in PlotParams}
    /\ IdleSample /\ IdleMandel /\ IdleColor

PlotDraw ==
    /\ pl.pc = "draw"
    /\ \E r1 \in PlotRVals, r2 \in PlotRVals :
         pl' = [pl EXCEPT !.trajectory = mandelbrot(Candidate(pl.p, r1, r2), pl.p.n),
                          !.pc = "plot"]
    /\ UNCHANGED <<sampleVars, mb, col>>

PlotStep ==
    /\ pl.pc = "plot" /\ pl.k <= Len(pl.trajectory)
    /\ pl' = [pl EXCEPT !.prev = pl.buf,
                        !.buf = PlotPoint(pl.p, pl.buf, pl.trajectory[pl.k]),
                        !.k = pl.k + 1]
    /\ UNCHANGED <<sampleVars, mb, col>>

PlotEnd ==
    /\ pl.pc = "plot" /\ pl.k > Len(pl.trajectory)
    /\ pl' = [pl EXCEPT !.pc = "done"]
    /\ UNCHANGED <<sampleVars, mb, col>>

PlotNext == PlotDraw \/ PlotStep \/ PlotEnd

SpecPlot == PlotInit /\ [][PlotNext]_vars

(***************************************************************************)
(* Properties.                                                             *)
(***************************************************************************)
RECURSIVE SetSum(_, _)
SetSum(f, S) ==
    IF S = {} THEN 0 ELSE LET x == CHOOSE y \in S : TRUE IN f[x] + SetSum(f, S \ {x})

\* The Red channel of a colour value, a whole number of units in the
\* images of sample, and its sum over an image.
RedValue(T, color) ==
    CASE T = "Float" -> color
      [] T = "Rg" -> color.r
      [] T = "Rgb" -> color.r

Red(T, color) == RedValue(T, color)[1]

RedOf(T, image) == [xy \in DOMAIN image |-> Red(T, image[xy])]

RedSum(T, image) == SetSum(RedOf(T, image), DOMAIN image)

\* The samples completed so far by all workers.
Completed == SetSum(wi, DOMAIN wi)

\* The least q with q * b >= a.
Ceil(a, b) == CHOOSE q \in 0..a : q * b >= a /\ \A r \in 0..a : r * b >= a => q <= r

\* C1: sample has returned only when every worker has finished its merge and
\* released the image.
C1_ReturnsAfterAllMerged ==
    mpc = "returned" => \A w \in Workers(prm) : wpc[w] = "done" /\ wk[w] = prm.size

C1_Witness ==
    /\ mpc = "returned" /\ prm.cpus >= 2 /\ prm.m >= 1
    /\ \A w \in Workers(prm) : wk[w] = prm.size

\* C2: once sample has returned, every cell's Red value is its value at the
\* call plus the sum of that cell over the workers' private buffers, and the
\* sum over the image is the sum at the call plus the number of in-bounds
\* trajectory points of all samples.
C2_MergeAddsEveryBuffer ==
    mpc = "returned" =>
        /\ \A xy \in DOMAIN im : RedValue(prm.T, im[xy])[2] = 1
        /\ \A xy \in DOMAIN im :
             Red(prm.T, im[xy]) =
                 Red(prm.T, InitialImage(prm)[xy])
                 + SetSum([w \in Workers(prm) |-> Red(prm.T, subim[w][xy])], Workers(prm))
        /\ RedSum(prm.T, im) = RedSum(prm.T, InitialImage(prm)) + hits

C2_Witness ==
    /\ mpc = "returned" /\ prm.cpus >= 2 /\ prm.fill >= 1
    /\ \E xy \in DOMAIN im : \A w \in Workers(prm) : Red(prm.T, subim[w][xy]) >= 1

\* C3: at most one worker holds the shared image at a time; the shared image
\* changes only by a step of the worker that holds it, after that worker's
\* whole quota; and a step that changes a worker's private buffer is a step
\* of its sampling loop that changes neither the shared image nor another
\* worker's buffer.
C3_MergeUnderExclusiveAccess ==
    /\ [](/\ Cardinality(lock) <= 1
          /\ \A w \in Workers(prm) : wpc[w] = "merging" <=> w \in lock)
    /\ [][/\ im' # im =>
               \E w \in lock : /\ lock = {w}
                               /\ wpc[w] = "merging"
                               /\ wi[w] = Quota(prm)
                               /\ subim' = subim
          /\ \A w \in Workers(prm) :
               subim'[w] # subim[w] =>
                   /\ wpc[w] = "sampling" /\ wi[w] < Quota(prm)
                   /\ im' = im
                   /\ \A v \in Workers(prm) \ {w} : subim'[v] = subim[v]]_vars

C3_Witness ==
    /\ prm.cpus >= 2
    /\ im # InitialImage(prm)
    /\ \E w \in lock : wk[w] = prm.size
    /\ \E v \in Workers(prm) \ lock : wpc[v] = "sampling" /\ wi[v] = Quota(prm)

\* C9 as stated: the progress bar has advanced by at least the number of
\* samples completed.
C9_ProgressAtLeastCompleted == bar >= Completed

\* C9 as amended: the progress bar differs from the number of samples
\* completed by at most progress_update per worker, in either direction.
C9_ProgressWithinGranularity ==
    /\ bar >= Completed - prm.progress_update * prm.cpus
    /\ bar <= Completed + prm.progress_update * prm.cpus

C9_Witness == mpc = "returned" /\ prm.cpus >= 2 /\ bar > 0 /\ bar < Completed

\* C10: a worker that has left its sampling loop has performed exactly
\* ceil(iters / cpus) samples, and at the return of sample the total is at
\* least iters and at most iters + cpus - 1.
C10_QuotaIsCeiling ==
    /\ \A w \in Workers(prm) :
         /\ wi[w] <= Ceil(Iters(prm), prm.cpus)
         /\ wpc[w] \in {"merging", "done"} => wi[w] = Ceil(Iters(prm), prm.cpus)
    /\ mpc = "returned" =>
         /\ Completed >= Iters(prm)
         /\ Completed <= Iters(prm) + prm.cpus - 1

C10_Witness ==
    /\ mpc = "returned" /\ prm.cpus >= 2
    /\ Iters(prm) % prm.cpus # 0
    /\ Completed = Iters(prm) + prm.cpus - 1

\* The recurrence z -> z * z + c by complex multiplication.
CMul(z, w) ==
    Complex(FSub(FMul(z.re, w.re), FMul(z.im, w.im)),
            FAdd(FMul(z.re, w.im), FMul(z.im, w.re)))

Mag2(z) == FAdd(FMul(z.re, z.re), FMul(z.im, z.im))

\* The orbit c, c*c + c, ... up to the first iterate of squared magnitude
\* greater than 4, that one left out; empty when none of the n iterates that
\* follow c is.
RECURSIVE Prefix(_, _, _, _)
Prefix(c, n, z, sofar) ==
    IF Len(sofar) >= n
    THEN <<>>
    ELSE LET next == CAdd(CMul(z, z), c)
         IN  IF FGt(Mag2(next), F(4))
             THEN Append(sofar, z)
             ELSE Prefix(c, n, next, Append(sofar, z))

\* C7: mandelbrot(c, n) is the orbit of c up to the first escaping iterate,
\* that one left out, or empty when no iterate escapes within n iterations;
\* so it is empty or has a length in 1..n and first element c.
C7_PrefixOrEmpty ==
    mb.pc = "done" =>
        /\ mb.out = Prefix(mb.c, mb.n, mb.c, <<>>)
        /\ \/ mb.out = <<>>
           \/ Len(mb.out) \in 1..mb.n /\ mb.out[1] = mb.c

C7_Witness == mb.pc = "done" /\ Len(mb.out) >= 2 /\ Len(mb.out) = mb.n

\* C8: for c of squared magnitude greater than 4 and n > 0, mandelbrot(c, n)
\* is the one-element sequence <<c>>.
C8_OutsideRadiusTwo ==
    (mb.pc = "done" /\ mb.n > 0 /\ FGt(Mag2(mb.c), F(4))) => mb.out = <<mb.c>>

C8_Witness ==
    /\ mb.pc = "done" /\ mb.n >= 2 /\ FGt(Mag2(mb.c), F(4))
    /\ ~FGt(Mag2(mb.c), F(5))
    /\ Len(mb.out) = 1

\* C4 as stated, with px and py the floors: the last point plotted changed no
\* cell if px or py is outside the image, and otherwise added one unit to
\* cell (px, py) alone.
C4_FloorOutsideIsDiscarded ==
    pl.k > 1 =>
        LET z == pl.trajectory[pl.k - 1]
            px == Floor(FMul(ToFrame(pl.p, z).re, F(pl.p.width)))
            py == Floor(FMul(ToFrame(pl.p, z).im, F(Height(pl.p))))
        IN  IF px \in 0..(pl.p.width - 1) /\ py \in 0..(Height(pl.p) - 1)
            THEN pl.buf = [pl.prev EXCEPT ![<<px, py>>] =
                               add(pl.p.T, @, one(pl.p.T, "Red"))]
            ELSE pl.buf = pl.prev

\* The channels the claims count as present in a colour type, and a
\* channel's position in the tuple.
Present(T) ==
    CASE T = "Float" -> {"Red"}
      [] T = "Rg" -> {"Red", "Green"}
      [] T = "Rgb" -> {"Red", "Green", "Blue"}

Position(channel) ==
    CASE channel = "Red" -> 1
      [] channel = "Green" -> 2
      [] channel = "Blue" -> 3

UnitTuple(channel) == [i \in 1..3 |-> IF i = Position(channel) THEN F(1) ELSE F(0)]

\* rgb is one(ch).to_tuple_rgb() for a channel present in T.
UnitWidened ==
    col.last = "one" /\ ~col.panicked /\ col.conv /\ col.ch \in Present(col.T)

\* C5 as stated: for every colour type, one(channel).to_tuple_rgb() is 1 at
\* the channel's position and 0 elsewhere.
C5_UnitTupleEveryType == UnitWidened => col.rgb = UnitTuple(col.ch)

\* C5 as amended: that holds for Rg and Rgb; for Float the tuple is
\* (1, 1, 1).
C5_UnitTupleOrGray ==
    UnitWidened =>
        IF col.T = "Float" THEN col.rgb = <<F(1), F(1), F(1)>> ELSE col.rgb = UnitTuple(col.ch)

C5_Witness == UnitWidened /\ col.T = "Rg" /\ col.ch = "Green"

\* C6: one(channel) for a channel not present in the colour type fails.
C6_AbsentChannelFails ==
    (col.last = "one" /\ col.ch \notin Present(col.T)) => col.panicked

====
